---- MODULE Spec2Model ----
(***************************************************************************)
(* Model of api/index.py: the send_message handler (one conversation turn  *)
(* against the remote assistant service), the thread_locks registry, and   *)
(* the two persistence helpers save_conversation_to_db / save_error_to_db. *)
(*                                                                         *)
(* Each request is served by its own worker thread; a handler is split     *)
(* into one step per access to shared state (the thread_locks dict, a lock,*)
(* a remote call, a store call, the clock), so that every interleaving the *)
(* threaded server can produce is a behaviour of Spec.  An except handler  *)
(* runs in the step of the call that raised.  Spec follows two requests;   *)
(* every remote call and every store call may raise.                       *)
(* SpecDb runs save_conversation_to_db alone, call after call.             *)
(***************************************************************************)
EXTENDS Naturals, Sequences, FiniteSets, TLC

\* ---------------------------------------------------------------- bounds
MaxUnitWaits == 2      \* polling rounds followed one time unit at a time
MaxDbCalls == 3        \* sequential save_conversation_to_db calls in SpecDb

\* ------------------------------------------------------ program constants
timeout_duration == 30 \* index.py:106
sleep_interval == 1    \* index.py:119  time.sleep(1)

\* The requests of one behaviour: two, each served by its own worker thread.
Inv == {1, 2}

NoneVal == "None"                       \* Python None / absent JSON field
ThreadIds == {"T1", "T2"}               \* threads that exist on the remote
Keys == ThreadIds \cup {NoneVal}        \* what data.get('thread_id') yields
\* Request bodies {thread_id, message} the model sends: a complete one for
\* each thread, one without message, one without thread_id.
Requests == {<<"T1", "hello">>, <<"T2", "hello">>,
             <<"T1", NoneVal>>, <<NoneVal, "hello">>}
\* The text of the reply the assistant writes in Run r: one text per Run, so
\* that replies of different Runs can be told apart.
ReplyText(r) == IF r = 1 THEN "hi there (run 1)" ELSE "hi there (run 2)"

\* The statuses the polling loop reports as a failed Run (index.py:116);
\* the others it tells apart are "in_progress" and "completed".
FailedStatus == {"failed", "cancelled", "expired"}

CallKinds == {"list_runs", "post_message", "create_run", "get_run",
              "cancel_run", "list_messages",
              "save_conversation", "save_error"}
RemoteKinds == {"list_runs", "post_message", "create_run", "get_run",
                "cancel_run", "list_messages"}

TimeoutText == "Timeout occurred while waiting for the API response"
RemoteErrorText == "remote error"
RunFailedText(s) ==
  CASE s = "failed" -> "Run failed with status: failed"
    [] s = "cancelled" -> "Run failed with status: cancelled"
    [] s = "expired" -> "Run failed with status: expired"

VARIABLES
  thread_locks,    \* index.py:42  dict  thread_id -> Lock object (0: no key)
  locked,          \* Lock object -> invocation holding it (0: free)
  pc,              \* position of each invocation in send_message
  thread_id,       \* local  data.get('thread_id')
  user_message,    \* local  data.get('message')
  lock,            \* the Lock object an invocation read for its `with`
  run,             \* local  run.id of the Run the invocation created (0: none)
  elapsed,         \* time.time() - start_time, saturated above the deadline
  assistant_response, \* local
  conversation,    \* local to save_conversation_to_db: find_one(...) truthy
  now,             \* local to save_conversation_to_db: datetime.now()
  resp,            \* the HTTP response returned (code 0: none yet)
  observed,        \* history: what the polling loop saw last (a status, or
                   \*          "deadline" when the deadline test fired)
  caught,          \* history: the except clause that handled the turn
  calls,           \* history: calls each invocation made, per kind
  runs,            \* remote: sequence of Runs, run id = index
  messages,        \* remote: thread -> messages, oldest first
  mongo_client,    \* index.py:26-40  "connected" or None
  conversations,   \* store collection: sequence of documents
  errors,          \* store collection: sequence of error records
  dbClock,         \* value the next datetime.datetime.now() returns
  saved,           \* history: what the store helper of an invocation returned
                   \*          ("True", "False"; None before it is called)
  saveLog,         \* history of SpecDb: the save_conversation_to_db calls made
  turnLog          \* history: per thread, who posted its message, saw its
                   \*          Run completed and wrote its turn, in order

locals == <<pc, thread_id, user_message, lock, run, elapsed,
            assistant_response, conversation, now, resp, observed, caught,
            calls, saved>>
remote == <<runs, messages>>
store == <<mongo_client, conversations, errors, dbClock>>
vars == <<thread_locks, locked, locals, remote, store, saveLog, turnLog>>

\* ---------------------------------------------------------------- helpers
NoResp == [code |-> 0, response |-> NoneVal, error |-> NoneVal,
           thread_id |-> NoneVal]
JsonResponse(c, t, r) == [code |-> c, response |-> r, error |-> NoneVal,
                          thread_id |-> t]
JsonError(c, e) == [code |-> c, response |-> NoneVal, error |-> e,
                    thread_id |-> NoneVal]

ConflictText == "Hay una solicitud en proceso. Por favor, espera."
RequiredText == "thread_id and message are required"
TooLongText == "La solicitud ha tardado demasiado. Por favor, intenta reformular tu pregunta."
NoAnswerText == "No se pudo obtener una respuesta."

\* Python truthiness of a request field: None and "" are falsy.
Falsy(x) == x \in {NoneVal, ""}

\* Record one call of kind k by invocation i.  get_run is polled without
\* bound, so only whether it was called is kept for it.
Called(i, K) ==
  [calls EXCEPT ![i] =
     [k \in CallKinds |->
        IF k \notin K THEN @[k] ELSE IF k = "get_run" THEN 1 ELSE @[k] + 1]]

Reverse(s) == [k \in 1..Len(s) |-> s[Len(s) + 1 - k]]

Min(S) == CHOOSE x \in S : \A y \in S : x <= y

\* next((msg for msg in data if msg.role == "assistant"), None): index of the
\* first assistant message of data, 0 for None.
FirstAssistant(data) ==
  LET S == {k \in 1..Len(data) : data[k].role = "assistant"}
  IN IF S = {} THEN 0 ELSE Min(S)

\* messages.list(thread_id): the remote returns the newest message first.
ListMessagesData(t) == Reverse(messages[t])

\* An active-run check that never finds a Run in progress.
NoActiveRun(t) == FALSE

\* next((run for run in runs.data if run.status == 'in_progress'), None)
\* is not None, for the runs of thread t.
ActiveRun(t) ==
  \E r \in 1..Len(runs) :
    runs[r].thread_id = t /\ runs[r].status = "in_progress"

\* A deadline test that never fires.
NeverExceeded(e) == FALSE

\* time.time() - start_time > timeout_duration
DeadlineExceeded(e) == e > timeout_duration

\* `thread_id not in thread_locks`
NotInThreadLocks(t) == thread_locks[t] = 0

\* `not thread_id or not user_message`
MissingField(t, m) == Falsy(t) \/ Falsy(m)

\* turnLog after invocation i did `what` on its thread.
Logged(i, what) ==
  [turnLog EXCEPT ![thread_id[i]] = Append(@, <<what, i>>)]

\* A return path that leaves the lock held.
KeepLock(i) == locked

\* Leaving the `with thread_locks[thread_id]:` block releases the lock the
\* invocation acquired.
ReleaseLock(i) == [locked EXCEPT ![lock[i]] = 0]

\* ------------------------------------------------------------------ Init
Init ==
  /\ thread_locks = [k \in Keys |-> 0]
  /\ locked = [l \in Inv |-> 0]
  /\ pc = [i \in Inv |-> "idle"]
  /\ thread_id = [i \in Inv |-> NoneVal]
  /\ user_message = [i \in Inv |-> NoneVal]
  /\ lock = [i \in Inv |-> 0]
  /\ run = [i \in Inv |-> 0]
  /\ elapsed = [i \in Inv |-> 0]
  /\ assistant_response = [i \in Inv |-> NoneVal]
  /\ conversation = [i \in Inv |-> FALSE]
  /\ now = [i \in Inv |-> 0]
  /\ resp = [i \in Inv |-> NoResp]
  /\ observed = [i \in Inv |-> NoneVal]
  /\ caught = [i \in Inv |-> NoneVal]
  /\ calls = [i \in Inv |-> [k \in CallKinds |-> 0]]
  /\ runs = <<>>
  /\ messages = [t \in ThreadIds |-> <<>>]
  /\ mongo_client \in {"connected", NoneVal}
  /\ conversations = <<>>
  /\ errors = <<>>
  /\ dbClock = 1
  /\ saved = [i \in Inv |-> NoneVal]
  /\ saveLog = <<>>
  /\ turnLog = [t \in ThreadIds |-> <<>>]

\* ------------------------------------------------------------- the store
\* conversations.find_one({'thread_id': t}): index of the first matching
\* document, 0 for None.
find_one(coll, t) ==
  LET S == {k \in 1..Len(coll) : coll[k].thread_id = t}
  IN IF S = {} THEN 0 ELSE Min(S)

\* The batch written assistant first.
TurnBatchSwapped(um, ar, n) ==
  << [role |-> "assistant", content |-> ar, timestamp |-> n],
     [role |-> "user", content |-> um, timestamp |-> n] >>

\* The two entries save_conversation_to_db writes, user then assistant.
TurnBatch(um, ar, n) ==
  << [role |-> "user", content |-> um, timestamp |-> n],
     [role |-> "assistant", content |-> ar, timestamp |-> n] >>

\* An update that replaces the messages list ('$set' in place of '$push').
update_one_set(coll, t, um, ar, n) ==
  LET S == {k \in 1..Len(coll) : coll[k].thread_id = t}
  IN [k \in 1..Len(coll) |->
        IF k \in S
        THEN [coll[k] EXCEPT !.messages = << [role |-> "user",
                                  content |-> um, timestamp |-> n],
                                [role |-> "assistant", content |-> ar,
                                 timestamp |-> n] >>,
                             !.updated_at = n]
        ELSE coll[k]]

\* conversations.update_one({'thread_id': t},
\*     {'$push': {'messages': {'$each': batch}}, '$set': {'updated_at': n}})
update_one(coll, t, um, ar, n) ==
  LET k == find_one(coll, t)
  IN IF k = 0 THEN coll
     ELSE [coll EXCEPT ![k] = [@ EXCEPT
             !.messages = @ \o TurnBatch(um, ar, n),
             !.updated_at = n]]

\* conversations.insert_one({thread_id, messages, created_at, updated_at})
insert_one(coll, t, um, ar, n) ==
  Append(coll, [thread_id |-> t, messages |-> TurnBatch(um, ar, n),
                created_at |-> n, updated_at |-> n])

\* The write save_conversation_to_db chooses from what find_one returned.
WriteTurn(coll, found, t, um, ar, n) ==
  IF found THEN update_one(coll, t, um, ar, n)
  ELSE insert_one(coll, t, um, ar, n)

\* ------------------------------------------------- send_message, by steps
\* The handler returns response r: the `with` block is left, which releases
\* the lock, and the response is sent.
Finish(i, r) ==
  /\ resp' = [resp EXCEPT ![i] = r]
  /\ locked' = ReleaseLock(i)
  /\ pc' = [pc EXCEPT ![i] = "done"]

\* save_error_to_db(thread_id, user_message, error_message): one insert,
\* skipped without a connection, and any exception of it swallowed.
save_error_to_db(i, em) ==
  \/ /\ mongo_client = NoneVal
     /\ saved' = [saved EXCEPT ![i] = "False"]
     /\ UNCHANGED <<errors, dbClock>>
  \/ /\ mongo_client # NoneVal
     /\ dbClock' = dbClock + 1
     /\ \/ /\ errors' = Append(errors,
                          [thread_id |-> thread_id[i],
                           user_message |-> user_message[i],
                           error_message |-> em,
                           timestamp |-> dbClock])
           /\ saved' = [saved EXCEPT ![i] = "True"]
        \/ /\ saved' = [saved EXCEPT ![i] = "False"]
           /\ UNCHANGED errors

\* A TimeoutError handler that answers without recording anything.
ExceptTimeoutSilent(i) ==
  /\ caught' = [caught EXCEPT ![i] = "TimeoutError"]
  /\ Finish(i, JsonError(504, TooLongText))
  /\ UNCHANGED <<saved, errors, dbClock>>

\* except TimeoutError as e: record str(e), answer 504.
ExceptTimeout(i) ==
  /\ caught' = [caught EXCEPT ![i] = "TimeoutError"]
  /\ save_error_to_db(i, TimeoutText)
  /\ Finish(i, JsonError(504, TooLongText))

\* except Exception as e: record str(e), answer 500 with it.
ExceptException(i, em) ==
  /\ caught' = [caught EXCEPT ![i] = "Exception"]
  /\ save_error_to_db(i, em)
  /\ Finish(i, JsonError(500, em))

\* The outer `except Exception as e`: answer 500, nothing recorded.
OuterExcept(i, em) ==
  /\ caught' = [caught EXCEPT ![i] = "outer Exception"]
  /\ Finish(i, JsonError(500, em))

\* A request arrives with body {thread_id: t, message: m}; the handler reads
\* both fields and tests `thread_id not in thread_locks`.
Start(i, t, m) ==
  /\ pc[i] = "idle"
  /\ thread_id' = [thread_id EXCEPT ![i] = t]
  /\ user_message' = [user_message EXCEPT ![i] = m]
  /\ pc' = [pc EXCEPT ![i] =
              IF NotInThreadLocks(t) THEN "new_lock" ELSE "get_lock"]
  /\ UNCHANGED <<thread_locks, locked, lock, run, elapsed,
                 assistant_response, conversation, now, resp, observed,
                 caught, calls, saved, remote, store, saveLog,
                 turnLog>>

\* A registry that stores one and the same Lock object under every key.
NewLockShared(i) ==
  /\ pc[i] = "new_lock"
  /\ thread_locks' = [thread_locks EXCEPT ![thread_id[i]] = 1]
  /\ pc' = [pc EXCEPT ![i] = "get_lock"]
  /\ UNCHANGED <<locked, thread_id, user_message, lock, run, elapsed,
                 assistant_response, conversation, now, resp, observed,
                 caught, calls, saved, remote, store, saveLog,
                 turnLog>>

\* thread_locks[thread_id] = Lock(): a new Lock object, named after the
\* invocation that made it, is stored under the key.
NewLock(i) ==
  /\ pc[i] = "new_lock"
  /\ thread_locks' = [thread_locks EXCEPT ![thread_id[i]] = i]
  /\ pc' = [pc EXCEPT ![i] = "get_lock"]
  /\ UNCHANGED <<locked, thread_id, user_message, lock, run, elapsed,
                 assistant_response, conversation, now, resp, observed,
                 caught, calls, saved, remote, store, saveLog,
                 turnLog>>

\* `with thread_locks[thread_id]:` first evaluates the dict lookup ...
GetLock(i) ==
  /\ pc[i] = "get_lock"
  /\ lock' = [lock EXCEPT ![i] = thread_locks[thread_id[i]]]
  /\ pc' = [pc EXCEPT ![i] = "acquire"]
  /\ UNCHANGED <<thread_locks, locked, thread_id, user_message, run, elapsed,
                 assistant_response, conversation, now, resp, observed,
                 caught, calls, saved, remote, store, saveLog,
                 turnLog>>

\* ... and then blocks until that Lock object is free, and takes it.
Acquire(i) ==
  /\ pc[i] = "acquire"
  /\ locked[lock[i]] = 0
  /\ locked' = [locked EXCEPT ![lock[i]] = i]
  /\ pc' = [pc EXCEPT ![i] = "list_runs"]
  /\ UNCHANGED <<thread_locks, thread_id, user_message, lock, run, elapsed,
                 assistant_response, conversation, now, resp, observed,
                 caught, calls, saved, remote, store, saveLog,
                 turnLog>>

\* A rejection that is also written to the errors collection.
RejectRecorded(i, c, text) ==
  /\ calls' = Called(i, {"list_runs", "save_error"})
  /\ save_error_to_db(i, text)
  /\ Finish(i, JsonError(c, text))
  /\ UNCHANGED caught

\* `return jsonify({'error': text}), c` of the conflict (409) and of the
\* validation failure (400): nothing is recorded.
Reject(i, c, text) ==
  /\ calls' = Called(i, {"list_runs"})
  /\ Finish(i, JsonError(c, text))
  /\ UNCHANGED <<caught, saved, errors, dbClock>>

\* runs.list, the active-run check and the validation of the two fields.
\* An exception of runs.list is caught by the outer handler.
ListRuns(i) ==
  /\ pc[i] = "list_runs"
  /\ \/ /\ calls' = Called(i, {"list_runs"})
        /\ OuterExcept(i, RemoteErrorText)
        /\ UNCHANGED <<saved, errors, dbClock>>
     \/ /\ ActiveRun(thread_id[i])
        /\ Reject(i, 409, ConflictText)
     \/ /\ ~ActiveRun(thread_id[i])
        /\ MissingField(thread_id[i], user_message[i])
        /\ Reject(i, 400, RequiredText)
     \/ /\ ~ActiveRun(thread_id[i])
        /\ ~MissingField(thread_id[i], user_message[i])
        /\ calls' = Called(i, {"list_runs"})
        /\ pc' = [pc EXCEPT ![i] = "post_message"]
        /\ UNCHANGED <<locked, resp, caught, saved, errors, dbClock>>
  /\ UNCHANGED <<thread_locks, thread_id, user_message, lock, run, elapsed,
                 assistant_response, conversation, now, observed,
                 remote, mongo_client, conversations, saveLog,
                 turnLog>>

\* messages.create(thread_id, role="user", content=user_message)
PostMessage(i) ==
  /\ pc[i] = "post_message"
  /\ \/ /\ calls' = Called(i, {"post_message", "save_error"})
        /\ ExceptException(i, RemoteErrorText)
        /\ UNCHANGED <<messages, turnLog>>
     \/ /\ calls' = Called(i, {"post_message"})
        /\ messages' = [messages EXCEPT ![thread_id[i]] =
                          Append(@, [role |-> "user",
                                     content |-> user_message[i],
                                     run_id |-> 0])]
        /\ turnLog' = Logged(i, "posted")
        /\ pc' = [pc EXCEPT ![i] = "create_run"]
        /\ UNCHANGED <<locked, resp, caught, saved, errors, dbClock>>
  /\ UNCHANGED <<thread_locks, thread_id, user_message, lock, run, elapsed,
                 assistant_response, conversation, now, observed,
                 runs, mongo_client, conversations, saveLog>>

\* runs.create(thread_id, assistant_id); start_time = time.time()
CreateRun(i) ==
  /\ pc[i] = "create_run"
  /\ \/ /\ calls' = Called(i, {"create_run", "save_error"})
        /\ ExceptException(i, RemoteErrorText)
        /\ UNCHANGED <<runs, run>>
     \/ /\ calls' = Called(i, {"create_run"})
        /\ runs' = Append(runs, [thread_id |-> thread_id[i],
                                 status |-> "in_progress",
                                 cancel_calls |-> 0,
                                 created_by |-> i])
        /\ run' = [run EXCEPT ![i] = Len(runs) + 1]
        /\ pc' = [pc EXCEPT ![i] = "poll"]
        /\ UNCHANGED <<locked, resp, caught, saved, errors, dbClock>>
  /\ UNCHANGED <<thread_locks, thread_id, user_message, lock, elapsed,
                 assistant_response, conversation, now, observed,
                 messages, mongo_client, conversations, saveLog,
                 turnLog>>

\* Top of the polling loop: the deadline test, and on expiry runs.cancel
\* followed by `raise TimeoutError`.  An exception of runs.cancel itself
\* takes the place of the TimeoutError.
PollDeadline(i) ==
  /\ pc[i] = "poll"
  /\ \/ /\ DeadlineExceeded(elapsed[i])
        /\ calls' = Called(i, {"cancel_run", "save_error"})
        /\ runs' = [runs EXCEPT ![run[i]].cancel_calls = @ + 1]
        /\ \/ ExceptTimeout(i)
           \/ ExceptException(i, RemoteErrorText)
        /\ observed' = [observed EXCEPT ![i] = "deadline"]
        /\ elapsed' = [elapsed EXCEPT ![i] = 0]
     \/ /\ ~DeadlineExceeded(elapsed[i])
        /\ pc' = [pc EXCEPT ![i] = "retrieve"]
        /\ UNCHANGED <<calls, runs, elapsed, locked, resp, observed, caught,
                       saved, errors, dbClock>>
  /\ UNCHANGED <<thread_locks, thread_id, user_message, lock, run,
                 assistant_response, conversation, now,
                 messages, mongo_client, conversations, saveLog,
                 turnLog>>

\* runs.retrieve(thread_id, run_id) and the branch on run_status.status
Retrieve(i) ==
  /\ pc[i] = "retrieve"
  /\ \/ /\ calls' = Called(i, {"get_run", "save_error"})
        /\ ExceptException(i, RemoteErrorText)
        /\ elapsed' = [elapsed EXCEPT ![i] = 0]
        /\ UNCHANGED <<observed, turnLog>>
     \/ /\ runs[run[i]].status \in FailedStatus
        /\ calls' = Called(i, {"get_run", "save_error"})
        /\ observed' = [observed EXCEPT ![i] = runs[run[i]].status]
        /\ ExceptException(i, RunFailedText(runs[run[i]].status))
        /\ elapsed' = [elapsed EXCEPT ![i] = 0]
        /\ UNCHANGED turnLog
     \/ /\ runs[run[i]].status = "completed"
        /\ calls' = Called(i, {"get_run"})
        /\ observed' = [observed EXCEPT ![i] = "completed"]
        /\ turnLog' = Logged(i, "completed")
        /\ pc' = [pc EXCEPT ![i] = "list_messages"]
        /\ elapsed' = [elapsed EXCEPT ![i] = 0]
        /\ UNCHANGED <<locked, resp, caught, saved, errors, dbClock>>
     \/ /\ runs[run[i]].status \notin FailedStatus \cup {"completed"}
        /\ calls' = Called(i, {"get_run"})
        /\ observed' = [observed EXCEPT ![i] = runs[run[i]].status]
        /\ pc' = [pc EXCEPT ![i] = "sleep"]
        /\ UNCHANGED <<elapsed, locked, resp, caught, saved, errors, dbClock,
                       turnLog>>
  /\ UNCHANGED <<thread_locks, thread_id, user_message, lock, run,
                 assistant_response, conversation, now,
                 remote, mongo_client, conversations, saveLog>>

InPollingLoop(i) == pc[i] \in {"poll", "retrieve", "sleep"}

\* What time.time() - start_time reads one time unit after it read e.  The
\* first MaxUnitWaits units are followed one by one; the units from there to
\* the deadline, during which the loop only repeats itself, pass as one.
Later(e) ==
  IF e < MaxUnitWaits THEN e + sleep_interval
  ELSE timeout_duration + sleep_interval

\* Wall-clock time passes.  Every invocation that has taken start_time sees
\* its elapsed time grow, and an invocation in time.sleep(1) wakes up.
Tick ==
  /\ \E i \in Inv :
       InPollingLoop(i) /\ (pc[i] = "sleep" \/ ~DeadlineExceeded(elapsed[i]))
  /\ elapsed' = [i \in Inv |->
                   IF InPollingLoop(i) /\ ~DeadlineExceeded(elapsed[i])
                   THEN Later(elapsed[i]) ELSE elapsed[i]]
  /\ pc' = [i \in Inv |-> IF pc[i] = "sleep" THEN "poll" ELSE pc[i]]
  /\ UNCHANGED <<thread_locks, locked, thread_id, user_message, lock, run,
                 assistant_response, conversation, now, resp, observed,
                 caught, calls, saved, remote, store, saveLog,
                 turnLog>>

\* A save failure turned into an error response.
AnswerOnlyIfSaved(i, ok) ==
  IF ok THEN JsonResponse(200, thread_id[i], assistant_response[i])
  ELSE JsonError(500, "Error al guardar")

\* What send_message returns once it has the assistant's text and
\* save_conversation_to_db has returned ok: a False is logged, no more.
Answer(i, ok) == JsonResponse(200, thread_id[i], assistant_response[i])

\* messages.list(thread_id) and the search for the assistant's message.
ListMessages(i) ==
  /\ pc[i] = "list_messages"
  /\ LET data == ListMessagesData(thread_id[i])
         k == FirstAssistant(data)
     IN \/ /\ calls' = Called(i, {"list_messages", "save_error"})
           /\ ExceptException(i, RemoteErrorText)
           /\ UNCHANGED assistant_response
        \/ /\ k # 0
           /\ calls' = Called(i, {"list_messages"})
           /\ assistant_response' =
                [assistant_response EXCEPT ![i] = data[k].content]
           /\ pc' = [pc EXCEPT ![i] = "save_find"]
           /\ UNCHANGED <<locked, resp, caught, saved, errors, dbClock>>
        \/ /\ k = 0
           /\ calls' = Called(i, {"list_messages"})
           /\ Finish(i, JsonResponse(200, thread_id[i], NoAnswerText))
           /\ UNCHANGED <<assistant_response, caught, saved, errors, dbClock>>
  /\ UNCHANGED <<thread_locks, thread_id, user_message, lock, run, elapsed,
                 conversation, now, observed, remote, mongo_client,
                 conversations, saveLog,
                 turnLog>>

\* save_conversation_to_db up to find_one: the mongo_client test,
\* datetime.now() and the lookup.  Any failure returns False, and
\* send_message answers all the same.
SaveFind(i) ==
  /\ pc[i] = "save_find"
  /\ calls' = Called(i, {"save_conversation"})
  /\ \/ /\ mongo_client = NoneVal
        /\ saved' = [saved EXCEPT ![i] = "False"]
        /\ Finish(i, Answer(i, FALSE))
        /\ UNCHANGED <<now, dbClock, conversation>>
     \/ /\ mongo_client # NoneVal
        /\ dbClock' = dbClock + 1
        /\ \/ /\ saved' = [saved EXCEPT ![i] = "False"]
              /\ Finish(i, Answer(i, FALSE))
              /\ UNCHANGED <<now, conversation>>
           \/ /\ now' = [now EXCEPT ![i] = dbClock]
              /\ conversation' = [conversation EXCEPT ![i] =
                                    find_one(conversations, thread_id[i]) # 0]
              /\ pc' = [pc EXCEPT ![i] = "save_write"]
              /\ UNCHANGED <<saved, locked, resp>>
  /\ UNCHANGED <<thread_locks, thread_id, user_message, lock, run, elapsed,
                 assistant_response, observed, caught, remote,
                 mongo_client, conversations, errors, saveLog,
                 turnLog>>

\* save_conversation_to_db from `if conversation:` on: update_one or
\* insert_one, then the return of send_message.
SaveWrite(i) ==
  /\ pc[i] = "save_write"
  /\ \/ /\ conversations' = WriteTurn(conversations, conversation[i],
                              thread_id[i], user_message[i],
                              assistant_response[i], now[i])
        /\ saved' = [saved EXCEPT ![i] = "True"]
        /\ turnLog' = Logged(i, "persisted")
        /\ Finish(i, Answer(i, TRUE))
     \/ /\ saved' = [saved EXCEPT ![i] = "False"]
        /\ Finish(i, Answer(i, FALSE))
        /\ UNCHANGED <<conversations, turnLog>>
  /\ conversation' = [conversation EXCEPT ![i] = FALSE]
  /\ now' = [now EXCEPT ![i] = 0]
  /\ UNCHANGED <<thread_locks, thread_id, user_message, lock, run, elapsed,
                 assistant_response, observed, caught, calls,
                 remote, mongo_client, errors, dbClock, saveLog>>

\* ------------------------------------------------------ the remote service
\* The assistant finishes Run r: the Run becomes completed, with or without
\* a reply appended to the thread.
RunCompletes(r) ==
  /\ runs[r].status = "in_progress"
  /\ runs' = [runs EXCEPT ![r].status = "completed"]
  /\ \/ messages' = [messages EXCEPT ![runs[r].thread_id] =
                        Append(@, [role |-> "assistant",
                                   content |-> ReplyText(r), run_id |-> r])]
     \/ UNCHANGED messages
  /\ UNCHANGED <<thread_locks, locked, locals, store, saveLog,
                 turnLog>>

\* Run r ends failed, cancelled or expired.
RunEnds(r, s) ==
  /\ runs[r].status = "in_progress"
  /\ runs' = [runs EXCEPT ![r].status = s]
  /\ UNCHANGED <<thread_locks, locked, locals, messages, store, saveLog,
                 turnLog>>

\* ------------------------------------------------------------------ Spec
Next ==
  \/ \E i \in Inv, q \in Requests : Start(i, q[1], q[2])
  \/ \E i \in Inv : NewLock(i)
  \/ \E i \in Inv : GetLock(i)
  \/ \E i \in Inv : Acquire(i)
  \/ \E i \in Inv : ListRuns(i)
  \/ \E i \in Inv : PostMessage(i)
  \/ \E i \in Inv : CreateRun(i)
  \/ \E i \in Inv : PollDeadline(i)
  \/ \E i \in Inv : Retrieve(i)
  \/ Tick
  \/ \E i \in Inv : ListMessages(i)
  \/ \E i \in Inv : SaveFind(i)
  \/ \E i \in Inv : SaveWrite(i)
  \/ \E r \in 1..Len(runs) : RunCompletes(r)
  \/ \E r \in 1..Len(runs), s \in FailedStatus : RunEnds(r, s)

Spec == Init /\ [][Next]_vars

\* --------------------------------------------------------------- SpecLive
\* One step of invocation i between the acquisition of its lock and its
\* return.  Each of them is a call that returns or a statement of the
\* handler, so a running handler thread keeps taking them.
SectionStep(i) ==
  \/ ListRuns(i)
  \/ PostMessage(i)
  \/ CreateRun(i)
  \/ PollDeadline(i)
  \/ Retrieve(i)
  \/ ListMessages(i)
  \/ SaveFind(i)
  \/ SaveWrite(i)

\* Every call returns and the handler goes on; the clock advances, which
\* also ends every time.sleep(1).
Fairness ==
  /\ \A i \in Inv : WF_vars(SectionStep(i))
  /\ WF_vars(Tick)

\* The requests of the runs checked for progress: invocation 1 sends any
\* request, invocation 2 one that lacks a field, which takes the lock, makes
\* the active-run check and returns.
LiveRequests(i) ==
  IF i = 1 THEN Requests
  ELSE {q \in Requests : MissingField(q[1], q[2])}

NextLive ==
  \/ \E i \in Inv : \E q \in LiveRequests(i) : Start(i, q[1], q[2])
  \/ \E i \in Inv : NewLock(i) \/ GetLock(i) \/ Acquire(i)
  \/ \E i \in Inv : SectionStep(i)
  \/ Tick
  \/ \E r \in 1..Len(runs) : RunCompletes(r)
  \/ \E r \in 1..Len(runs), s \in FailedStatus : RunEnds(r, s)

SpecLive == Init /\ [][NextLive]_vars /\ Fairness

\* ---------------------------------------------------------------- SpecDb
\* save_conversation_to_db(thread_id, user_message, assistant_response) run
\* from entry to return with no other call in between, as in a sequence of
\* calls by one caller.  saveLog keeps each call with what it returned.
save_conversation_to_db(t, um, ar) ==
  /\ Len(saveLog) < MaxDbCalls
  /\ \/ /\ mongo_client = NoneVal
        /\ saveLog' = Append(saveLog, [thread_id |-> t, user_message |-> um,
                        assistant_response |-> ar, now |-> 0, ok |-> FALSE])
        /\ UNCHANGED <<conversations, dbClock>>
     \/ /\ mongo_client # NoneVal
        /\ dbClock' = dbClock + 1
        /\ \/ /\ saveLog' = Append(saveLog,
                   [thread_id |-> t, user_message |-> um,
                    assistant_response |-> ar, now |-> dbClock, ok |-> FALSE])
              /\ UNCHANGED conversations
           \/ /\ conversations' =
                   WriteTurn(conversations, find_one(conversations, t) # 0,
                             t, um, ar, dbClock)
              /\ saveLog' = Append(saveLog,
                   [thread_id |-> t, user_message |-> um,
                    assistant_response |-> ar, now |-> dbClock, ok |-> TRUE])
  /\ UNCHANGED <<thread_locks, locked, locals, remote, mongo_client, errors,
                 turnLog>>

DbMessages == {"hello", "bye"}
DbResponses == {"hi there", "see you"}

NextDb ==
  \E t \in ThreadIds, um \in DbMessages, ar \in DbResponses :
    save_conversation_to_db(t, um, ar)

SpecDb == Init /\ [][NextDb]_vars


\* ================================================================ claims
InSection(i) ==
  pc[i] \in {"list_runs", "post_message", "create_run", "poll", "retrieve",
             "sleep", "list_messages", "save_find", "save_write"}

Done(i) == pc[i] = "done"

InProgressRuns(t) ==
  {r \in 1..Len(runs) : runs[r].thread_id = t /\ runs[r].status = "in_progress"}

\* C1: for every thread id, at most one invocation at a time is between
\* acquiring the lock it got from thread_locks[thread_id] and releasing it.
C1_MutualExclusion ==
  \A t \in ThreadIds :
    Cardinality({i \in Inv : InSection(i) /\ thread_id[i] = t}) <= 1

\* C2: for every thread, at most one Run created by send_message has remote
\* status in_progress, in every reachable state.
C2_AtMostOneRunInProgress ==
  \A t \in ThreadIds : Cardinality(InProgressRuns(t)) <= 1

\* C3: an invocation whose message or thread_id is missing returns 400 and
\* has made no call at all on the remote assistant client.
C3_MissingFieldNoRemoteCall ==
  \A i \in Inv :
    (Done(i) /\ MissingField(thread_id[i], user_message[i]))
      => /\ resp[i].code = 400
         /\ \A k \in RemoteKinds : calls[i][k] = 0

\* C4: an invocation whose deadline test fired returns 504 and has issued
\* exactly one cancelRun call, for the Run it created; an invocation that
\* ended otherwise has issued none.
C4_TimeoutReturns504OneCancel ==
  \A i \in Inv :
    Done(i) =>
      /\ observed[i] = "deadline" =>
           /\ resp[i].code = 504
           /\ calls[i]["cancel_run"] = 1
           /\ runs[run[i]].cancel_calls = 1
      /\ observed[i] # "deadline" => calls[i]["cancel_run"] = 0

\* The conversations collection holds, for thread t, the adjacent entries
\* (user, um), (assistant, ar) of one batch.
PairStored(t, um, ar) ==
  \E d \in 1..Len(conversations) :
    /\ conversations[d].thread_id = t
    /\ \E k \in 1..(Len(conversations[d].messages) - 1) :
         LET u == conversations[d].messages[k]
             a == conversations[d].messages[k + 1]
         IN /\ u.role = "user" /\ u.content = um
            /\ a.role = "assistant" /\ a.content = ar
            /\ u.timestamp = a.timestamp

\* The invocation saw its Run completed and messages.list returned an
\* assistant message.
CompletedWithAnswer(i) ==
  /\ Done(i)
  /\ observed[i] = "completed"
  /\ calls[i]["list_messages"] = 1
  /\ caught[i] = NoneVal
  /\ assistant_response[i] # NoneVal

\* C5: a turn whose Run is observed completed and whose message list holds an
\* assistant message returns 200 with that assistant text and the same
\* thread_id, makes exactly one save_conversation_to_db call, which (when it
\* succeeds) stores the pair user message, assistant response in that order,
\* and inserts no Error Record.
C5_CompletedTurnAnswered ==
  \A i \in Inv :
    CompletedWithAnswer(i) =>
      /\ resp[i].code = 200
      /\ resp[i].thread_id = thread_id[i]
      /\ \E k \in 1..Len(messages[thread_id[i]]) :
           /\ messages[thread_id[i]][k].role = "assistant"
           /\ messages[thread_id[i]][k].content = resp[i].response
      /\ calls[i]["save_conversation"] = 1
      /\ calls[i]["save_error"] = 0
      /\ saved[i] = "True" =>
           PairStored(thread_id[i], user_message[i], resp[i].response)

C5_Witness ==
  \E i \in Inv :
    /\ CompletedWithAnswer(i)
    /\ saved[i] = "True"
    /\ resp[i].response = ReplyText(run[i])
    /\ PairStored(thread_id[i], user_message[i], ReplyText(run[i]))

\* C6: the lock is released on every exit path: an invocation that has
\* returned its response holds no lock, and a lock is held only by an
\* invocation that is still running inside its `with` block.
C6_LockReleasedOnReturn ==
  /\ \A i \in Inv : Done(i) => \A l \in Inv : locked[l] # i
  /\ \A l \in Inv : locked[l] # 0 => InSection(locked[l])

C6_Witness ==
  \E i \in Inv : \E j \in Inv :
    /\ Done(i) /\ resp[i].code = 500 /\ caught[i] = "Exception"
    /\ Done(j) /\ resp[j].code = 409
    /\ lock[i] # 0 /\ lock[j] # 0
    /\ \A l \in Inv : locked[l] = 0


RECURSIVE ExpectedMessages(_, _)
\* The batches of the calls of log for thread t that returned True, in call
\* order, each as it was written at its call.
ExpectedMessages(log, t) ==
  IF log = <<>> THEN <<>>
  ELSE LET e == log[Len(log)]
           before == ExpectedMessages(SubSeq(log, 1, Len(log) - 1), t)
       IN IF e.ok /\ e.thread_id = t
          THEN before \o << [role |-> "user", content |-> e.user_message,
                             timestamp |-> e.now],
                            [role |-> "assistant",
                             content |-> e.assistant_response,
                             timestamp |-> e.now] >>
          ELSE before

DocsOf(t) == {d \in 1..Len(conversations) : conversations[d].thread_id = t}

\* C7 (SpecDb): after n >= 1 successful sequential save_conversation_to_db
\* calls for a thread, the store holds exactly one document for it, whose
\* messages are the 2n entries of the n batches in call order, unchanged
\* since they were written, and whose created_at is still that of the first
\* call; before the first successful call it holds none.
C7_UpsertAppends ==
  \A t \in ThreadIds :
    LET exp == ExpectedMessages(saveLog, t)
    IN IF exp = <<>> THEN DocsOf(t) = {}
       ELSE /\ Cardinality(DocsOf(t)) = 1
            /\ \A d \in DocsOf(t) :
                 /\ conversations[d].messages = exp
                 /\ conversations[d].created_at = exp[1].timestamp
                 /\ conversations[d].updated_at = exp[Len(exp)].timestamp

C7_Witness ==
  \E t \in ThreadIds :
    /\ Len(ExpectedMessages(saveLog, t)) >= 4
    /\ \E d \in DocsOf(t) :
         /\ Len(conversations[d].messages) >= 4
         /\ conversations[d].created_at # conversations[d].updated_at

\* C8: a turn whose poll observed failed, cancelled or expired returns 500,
\* attempts one Error Record insert with the user message and a description
\* naming the status, writes no Turn, issues no cancelRun and creates exactly
\* one Run; and a turn whose deadline test fired returns 504, so that the two
\* kinds of failure differ by status code.
C8_FailedVersusTimedOut ==
  \A i \in Inv :
    Done(i) =>
      /\ observed[i] \in FailedStatus =>
           /\ resp[i].code = 500
           /\ resp[i].error = RunFailedText(observed[i])
           /\ calls[i]["save_error"] = 1
           /\ calls[i]["save_conversation"] = 0
           /\ calls[i]["cancel_run"] = 0
           /\ calls[i]["create_run"] = 1
           /\ saved[i] = "True" =>
                \E e \in 1..Len(errors) :
                  /\ errors[e].thread_id = thread_id[i]
                  /\ errors[e].user_message = user_message[i]
                  /\ errors[e].error_message = RunFailedText(observed[i])
      /\ observed[i] = "deadline" => resp[i].code = 504

\* The response the path of a finished turn calls for, read off what the
\* turn observed and which handler caught it; the result of the store
\* helper is no part of it.
ResponseOfPath(i) ==
  IF caught[i] = "TimeoutError" THEN
    [code |-> 504, response |-> NoneVal, error |-> TooLongText,
     thread_id |-> NoneVal]
  ELSE IF caught[i] = "Exception" THEN
    [code |-> 500, response |-> NoneVal,
     error |-> IF observed[i] \in FailedStatus
               THEN RunFailedText(observed[i]) ELSE RemoteErrorText,
     thread_id |-> NoneVal]
  ELSE
    [code |-> 200, response |-> assistant_response[i], error |-> NoneVal,
     thread_id |-> thread_id[i]]

\* C9: a persistence failure never changes the caller-visible result: a turn
\* whose store helper returned False answers exactly what its path calls
\* for (200 with the assistant's text after save_conversation_to_db, the 500
\* or 504 of the handler after save_error_to_db), as a turn whose helper
\* returned True does.
C9_PersistenceFailureInvisible ==
  \A i \in Inv :
    (Done(i) /\ saved[i] \in {"True", "False"}) =>
      /\ resp[i] = ResponseOfPath(i)
      /\ calls[i]["save_conversation"] = 1 =>
           (resp[i].code = 200 /\ resp[i].response # NoneVal)
      /\ calls[i]["save_error"] = 1 => resp[i].code \in {500, 504}

C9_Witness ==
  \E i \in Inv : \E j \in Inv :
    /\ Done(i) /\ saved[i] = "False" /\ calls[i]["save_conversation"] = 1
    /\ resp[i].code = 200 /\ resp[i].response = ReplyText(run[i])
    /\ Done(j) /\ saved[j] = "False" /\ calls[j]["save_error"] = 1
    /\ resp[j].code = 504

\* C10: an invocation that ends with 400 or 409 has posted no message,
\* created no Run, cancelled none and attempted no store write.
C10_RejectionChangesNothing ==
  \A i \in Inv :
    (Done(i) /\ resp[i].code \in {400, 409}) =>
      /\ calls[i]["post_message"] = 0
      /\ calls[i]["create_run"] = 0
      /\ calls[i]["cancel_run"] = 0
      /\ calls[i]["save_conversation"] = 0
      /\ calls[i]["save_error"] = 0
      /\ saved[i] = NoneVal
      /\ run[i] = 0
      /\ \A r \in 1..Len(runs) : runs[r].created_by # i

C10_Witness ==
  \E i \in Inv : \E j \in Inv :
    /\ Done(i) /\ resp[i].code = 504 /\ runs[run[i]].status = "in_progress"
    /\ Done(j) /\ resp[j].code = 409 /\ thread_id[j] = thread_id[i]
    /\ Len(runs) = 1
    /\ Len(messages[thread_id[j]]) = 1
    /\ Len(errors) <= 1


\* A remote call of the turn raised: the response carries str(e) of it.
RemoteCallFailed(i) == Done(i) /\ resp[i].error = RemoteErrorText

ErrorRecorded(i, em) ==
  \E e \in 1..Len(errors) :
    /\ errors[e].thread_id = thread_id[i]
    /\ errors[e].user_message = user_message[i]
    /\ errors[e].error_message = em

\* C11: whichever remote call of a turn fails (list runs, post message,
\* create run, get run, cancel run, list messages), the turn is answered
\* with 500 or 504 and exactly one save_error_to_db call with the thread id
\* and the user message has been made before the response.
C11_RemoteFailureRecorded ==
  \A i \in Inv :
    RemoteCallFailed(i) =>
      /\ resp[i].code \in {500, 504}
      /\ calls[i]["save_error"] = 1
      /\ saved[i] \in {"True", "False"}
      /\ saved[i] = "True" => ErrorRecorded(i, RemoteErrorText)

\* C13: whether runs.cancel returns or raises, a turn whose deadline test
\* fired ends in the TimeoutError handler: it returns 504 and attempts an
\* Error Record insert with the timeout description.
C13_CancelOutcomeIgnored ==
  \A i \in Inv :
    (Done(i) /\ observed[i] = "deadline") =>
      /\ caught[i] = "TimeoutError"
      /\ resp[i] = JsonError(504, TooLongText)
      /\ calls[i]["save_error"] = 1
      /\ saved[i] = "True" => ErrorRecorded(i, TimeoutText)

\* C16: once thread_locks maps a thread id to a Lock object, no step removes
\* the entry or puts another Lock object in its place.
C16_RegistryStable ==
  [][\A k \in Keys :
       thread_locks[k] # 0 => thread_locks'[k] = thread_locks[k]]_vars

\* C19: the assistant text of a successful turn is the reply written by the
\* Run of that turn, never a message an earlier or another Run left in the
\* thread.
C19_AnswerIsOfOwnRun ==
  \A i \in Inv :
    (Done(i) /\ resp[i].code = 200 /\ resp[i].response # NoAnswerText)
      => resp[i].response = ReplyText(run[i])

\* C20: the conversations collection holds at most one document per
\* thread_id, in every reachable state.
C20_OneDocumentPerThread ==
  \A t \in ThreadIds : Cardinality(DocsOf(t)) <= 1


\* The calls an invocation made to the two store helpers.
StoreWrites(i) == calls[i]["save_conversation"] + calls[i]["save_error"]

\* C12 as stated: an invocation that observed its Run completed calls
\* save_conversation_to_db once and nothing else, one that observed it
\* failed, cancelled, expired or past the deadline calls save_error_to_db
\* once and nothing else, and no invocation calls the helpers twice.
C12_OneWritePerOutcome ==
  \A i \in Inv :
    Done(i) =>
      /\ observed[i] = "completed" =>
           calls[i]["save_conversation"] = 1 /\ calls[i]["save_error"] = 0
      /\ observed[i] \in FailedStatus \cup {"deadline"} =>
           calls[i]["save_error"] = 1 /\ calls[i]["save_conversation"] = 0
      /\ StoreWrites(i) <= 1

\* C12, amended: no invocation calls the store helpers more than once.  A
\* Run observed failed, cancelled, expired or past the deadline is followed
\* by exactly one save_error_to_db call.  A Run observed completed is
\* followed by one save_conversation_to_db call when an assistant message
\* was found, by one save_error_to_db call when messages.list raised, and
\* by no store call at all when the thread held no assistant message.
C12_OneWritePerOutcomeAmended ==
  \A i \in Inv :
    Done(i) =>
      /\ StoreWrites(i) <= 1
      /\ StoreWrites(i) = 1 <=> saved[i] # NoneVal
      /\ observed[i] \in FailedStatus \cup {"deadline"} =>
           calls[i]["save_error"] = 1 /\ saved[i] # NoneVal
      /\ (observed[i] = "completed" /\ caught[i] = NoneVal
            /\ resp[i].response # NoAnswerText) =>
           calls[i]["save_conversation"] = 1 /\ saved[i] # NoneVal
      /\ (observed[i] = "completed" /\ caught[i] # NoneVal) =>
           /\ calls[i]["list_messages"] = 1
           /\ calls[i]["save_error"] = 1
           /\ resp[i] = JsonError(500, RemoteErrorText)
      /\ (observed[i] = "completed" /\ resp[i].response = NoAnswerText) =>
           StoreWrites(i) = 0 /\ resp[i].code = 200

\* One turn completed without an assistant message and wrote nothing, the
\* other ran past the deadline and recorded its error.
C12_Witness ==
  \E i, j \in Inv :
    /\ Done(i) /\ observed[i] = "completed"
    /\ resp[i].response = NoAnswerText /\ StoreWrites(i) = 0
    /\ Done(j) /\ observed[j] = "deadline"
    /\ calls[j]["save_error"] = 1 /\ saved[j] = "True"


\* A turn on thread t has ended because its deadline test fired.
TimedOutOn(t) ==
  \E j \in Inv : Done(j) /\ thread_id[j] = t /\ observed[j] = "deadline"

\* Invocation i runs its runs.list call and the checks that follow it.
RunCheckStep(i) == pc[i] = "list_runs" /\ pc'[i] # "list_runs"

RunCheckFailed(i) ==
  /\ pc'[i] = "done"
  /\ resp'[i] = JsonError(500, RemoteErrorText)
  /\ caught'[i] = "outer Exception"
  /\ calls'[i]["post_message"] = 0 /\ calls'[i]["create_run"] = 0
  /\ messages' = messages /\ runs' = runs

RunCheckRejected(i) ==
  /\ pc'[i] = "done"
  /\ resp'[i] = JsonError(409, ConflictText)
  /\ calls'[i]["post_message"] = 0 /\ calls'[i]["create_run"] = 0
  /\ messages' = messages /\ runs' = runs

\* C15 as stated: after a turn of a thread timed out, an invocation that
\* makes its active-run check while a Run of the thread is in_progress
\* ends with 409 and posts nothing and creates no Run; one with both
\* fields that makes the check when no Run is in_progress goes on to post
\* its message.
C15_DanglingRunRejects ==
  [][\A i \in Inv :
       (RunCheckStep(i) /\ TimedOutOn(thread_id[i])) =>
          /\ InProgressRuns(thread_id[i]) # {} => RunCheckRejected(i)
          /\ (InProgressRuns(thread_id[i]) = {} /\ user_message[i] # NoneVal)
               => pc'[i] = "post_message"]_vars

\* C15, amended: the same, for an invocation whose runs.list call returns;
\* when runs.list raises the invocation ends with 500, and it too posts
\* nothing and creates no Run.
C15_DanglingRunRejectsAmended ==
  [][\A i \in Inv :
       (RunCheckStep(i) /\ TimedOutOn(thread_id[i])) =>
          /\ InProgressRuns(thread_id[i]) # {} =>
               RunCheckRejected(i) \/ RunCheckFailed(i)
          /\ (InProgressRuns(thread_id[i]) = {} /\ user_message[i] # NoneVal)
               => pc'[i] = "post_message" \/ RunCheckFailed(i)]_vars

\* A turn timed out and left its Run in progress; a request with both
\* fields on the same thread was then answered 409.
C15_Witness ==
  \E i, j \in Inv :
    /\ Done(j) /\ observed[j] = "deadline" /\ caught[j] = "TimeoutError"
    /\ runs[run[j]].status = "in_progress"
    /\ Done(i) /\ thread_id[i] = thread_id[j] /\ user_message[i] = "hello"
    /\ resp[i] = JsonError(409, ConflictText)
    /\ calls[i]["list_runs"] = 1 /\ calls[i]["post_message"] = 0


\* Invocation i is stopped at the acquisition of a Lock another one holds.
Blocked(i) == pc[i] = "acquire" /\ locked[lock[i]] # 0

\* C18: different thread ids have different Lock objects, in the registry
\* and in the hands of the invocations; an invocation stopped at the
\* acquisition of its lock is stopped by an invocation of the same thread
\* id that is running inside the `with` block (which waits for no lock), so
\* invocations of different threads never wait for each other; and an
\* invocation that is the only one to name its thread id is never stopped.
C18_ThreadsDoNotBlock ==
  /\ \A k1, k2 \in Keys :
       (k1 # k2 /\ thread_locks[k1] # 0) => thread_locks[k1] # thread_locks[k2]
  /\ \A i, j \in Inv :
       (lock[i] # 0 /\ lock[j] # 0 /\ thread_id[i] # thread_id[j])
         => lock[i] # lock[j]
  /\ \A i \in Inv :
       Blocked(i) =>
         /\ thread_id[locked[lock[i]]] = thread_id[i]
         /\ InSection(locked[lock[i]])
  /\ \A i \in Inv :
       (pc[i] = "acquire"
          /\ \A j \in Inv \ {i} : pc[j] = "idle" \/ thread_id[j] # thread_id[i])
         => ~Blocked(i)

\* Two invocations of different threads are inside their `with` blocks at
\* the same time, each holding the lock of its own thread.
C18_Witness ==
  \E i, j \in Inv :
    /\ thread_id[i] = "T1" /\ thread_id[j] = "T2"
    /\ InSection(i) /\ InSection(j)
    /\ locked[lock[i]] = i /\ locked[lock[j]] = j
    /\ pc[i] = "sleep" /\ pc[j] = "save_write"


ResponseCodes == {200, 400, 409, 500, 504}

Returned(i) ==
  /\ Done(i)
  /\ resp[i].code \in ResponseCodes
  /\ \A l \in Inv : locked[l] # i

\* C14: with every call returning and the clock advancing, an invocation
\* that has acquired its lock eventually returns a response with one of the
\* codes 200, 400, 409, 500, 504 and holds no lock any more, also when its
\* Run stays in_progress forever; and once returned, its response never
\* changes.
C14_EveryTurnReturns ==
  /\ \A i \in Inv : InSection(i) ~> Returned(i)
  /\ [][\A i \in Inv : Done(i) => Done(i)' /\ resp'[i] = resp[i]]_vars

\* A turn whose Run was still in_progress at every poll has left the loop
\* through the deadline and returned.
C14_Witness ==
  \E i \in Inv :
    /\ Returned(i) /\ observed[i] = "deadline"
    /\ runs[run[i]].status = "in_progress"
    /\ calls[i]["get_run"] = 1 /\ calls[i]["cancel_run"] = 1


\* The position at which invocation i did `what` on thread t (0: never).
When(t, what, i) ==
  LET at == {k \in 1..Len(turnLog[t]) : turnLog[t][k] = <<what, i>>}
  IN IF at = {} THEN 0 ELSE Min(at)

\* The invocations that wrote a turn of thread t, in the order they wrote.
Persisted(t) ==
  LET IsWrite(e) == e[1] = "persisted"
      writes == SelectSeq(turnLog[t], IsWrite)
  IN [k \in 1..Len(writes) |-> writes[k][2]]

\* C17: for each thread, the turns written to the store are all in its
\* conversation document, one batch after the other in the order they were
\* written, and that order is the order in which their Runs were observed
\* completed and the order in which their user messages were posted.
C17_TurnsPersistedInOrder ==
  \A t \in ThreadIds :
    LET who == Persisted(t)
    IN /\ \A a, b \in 1..Len(who) :
            a < b =>
              /\ When(t, "completed", who[a]) < When(t, "completed", who[b])
              /\ When(t, "posted", who[a]) < When(t, "posted", who[b])
       /\ Len(who) > 0 =>
            \E c \in DocsOf(t) :
              /\ Len(conversations[c].messages) = 2 * Len(who)
              /\ \A k \in 1..Len(who) :
                   /\ conversations[c].messages[2 * k - 1].content
                        = user_message[who[k]]
                   /\ conversations[c].messages[2 * k].content
                        = resp[who[k]].response


====
